---- MODULE Spec2Model ----
(***************************************************************************)
(* DynamicFormGenerator (src/src/DynamicFormGenerator.tsx): a React        *)
(* component that parses a JSON schema typed into an editor, renders the   *)
(* form it describes, validates the inputs and shows a success message.    *)
(*                                                                         *)
(* Every event handler runs to completion on the UI thread, and React      *)
(* flushes the effects it triggers before the next event is dispatched, so *)
(* one action is one handler together with the effects it triggers.        *)
(*                                                                         *)
(* JSON values are tagged records, so that the handler's duck-typed tests  *)
(* (truthiness, typeof, Array.isArray, property reads) are computed as     *)
(* JavaScript computes them.  Field values typed by the user are sequences *)
(* of one-character strings, so that a regular expression inspects them.   *)
(***************************************************************************)
EXTENDS Naturals, Integers, Sequences, FiniteSets, TLC

VARIABLES
    jsonSchema,       \* editor text (useState, line 39)
    parsedSchema,     \* active schema, a JSON value (line 40)
    schemaIsDefault,  \* parsedSchema is the very object defaultSchema (===)
    jsonError,        \* schema error message (line 41)
    formData,         \* field id -> value (line 42)
    formErrors,       \* field id -> message (line 43)
    isSubmitting,     \* line 44
    submitSuccess,    \* line 45
    timers,           \* pending setTimeout callbacks: seconds left of each
    sinceSuccess,     \* seconds since the latest setSubmitSuccess(true)
    mounted,          \* the component is mounted
    lastEvent         \* the handler that ran last, and how it ended

vars == <<jsonSchema, parsedSchema, schemaIsDefault, jsonError, formData,
          formErrors, isSubmitting, submitSuccess, timers, sinceSuccess,
          mounted, lastEvent>>

----------------------------------------------------------------------------
(* Bounds *)

\* longest value typed into a control
MaxValLen == 1

\* the delay of the auto-dismiss timer, in seconds (3000 ms)
TimerDelay == 3

----------------------------------------------------------------------------
(* JSON values and the JavaScript operations the handlers apply to them *)

JNull == [t |-> "null"]
JUndefined == [t |-> "undefined"]
JBool(b) == [t |-> "bool", b |-> b]
JNum(n) == [t |-> "num", n |-> n]
JStr(s) == [t |-> "str", s |-> s]
JArr(a) == [t |-> "arr", a |-> a]
JObj(o) == [t |-> "obj", o |-> o]

\* typeof v
TypeOf(v) ==
    CASE v.t \in {"null", "arr", "obj"} -> "object"
      [] v.t = "str" -> "string"
      [] v.t = "num" -> "number"
      [] v.t = "bool" -> "boolean"
      [] OTHER -> "undefined"

\* Array.isArray(v)
IsArray(v) == v.t = "arr"

\* the truthiness of v: !v is ~Truthy(v)
Truthy(v) ==
    CASE v.t \in {"null", "undefined"} -> FALSE
      [] v.t = "bool" -> v.b
      [] v.t = "num" -> v.n # 0
      [] v.t = "str" -> v.s # ""
      [] OTHER -> TRUE

\* reading a property of null or undefined throws a TypeError
GetThrows(v) == v.t \in {"null", "undefined"}

\* v.key, when the read does not throw
Get(v, key) ==
    IF v.t = "obj" /\ key \in DOMAIN v.o THEN v.o[key] ELSE JUndefined

----------------------------------------------------------------------------
(* Schemas (interfaces FormField and FormSchema) *)

\* a FormField without a validation rule
Field(id, required) ==
    JObj([id |-> JStr(id), type |-> JStr("text"), label |-> JStr(id),
          required |-> JBool(required)])

\* a FormField with a validation rule
FieldP(id, required, pattern, message) ==
    JObj([id |-> JStr(id), type |-> JStr("text"), label |-> JStr(id),
          required |-> JBool(required),
          validation |-> JObj([pattern |-> JStr(pattern),
                               message |-> JStr(message)])])

\* a FormSchema
Schema(title, description, fields) ==
    JObj([formTitle |-> JStr(title), formDescription |-> JStr(description),
          fields |-> JArr(fields)])

defaultSchema == Schema("New Form", "Please fill out this form", <<>>)

\* parsedSchema.fields, a sequence of fields
FieldsOf(schema) == schema.o.fields.a

\* the key under which formData and formErrors hold a field: acc[field.id]
\* converts the id to a string
KeyOf(field) ==
    LET id == Get(field, "id") IN
    CASE id.t = "str" -> id.s
      [] id.t = "num" -> ToString(id.n)
      [] id.t = "bool" -> IF id.b THEN "true" ELSE "false"
      [] id.t = "null" -> "null"
      [] id.t = "undefined" -> "undefined"
      [] OTHER -> "[object Object]"

FieldIds(schema) == {KeyOf(FieldsOf(schema)[i]) : i \in 1..Len(FieldsOf(schema))}

----------------------------------------------------------------------------
(* Editor texts.  A text either is not JSON, or denotes a JSON value. *)

Malformed(raw) == [kind |-> "malformed", raw |-> raw]
Json(doc) == [kind |-> "json", doc |-> doc]

\* JSON.parse(text) throws a SyntaxError
JSONParseThrows(text) == text.kind = "malformed"

\* JSON.parse(text), when it does not throw
JSONParse(text) == text.doc

DigitsPattern == "^\\d+$"
ContainsXPattern == "x"
UnbalancedPattern == "("

\* texts that are not JSON
TEmpty == Malformed("")
TOpenBrace == Malformed("{")
\* null
TNull == Json(JNull)
\* 5
TNumber == Json(JNum(5))
\* []
TArray == Json(JArr(<<>>))
\* {"formTitle":"T","formDescription":"D"}
TNoFields ==
    Json(JObj([formTitle |-> JStr("T"), formDescription |-> JStr("D")]))
\* {"formTitle":"T","formDescription":"D","fields":{"id":"name"}}
TFieldsObject ==
    Json(JObj([formTitle |-> JStr("T"), formDescription |-> JStr("D"),
               fields |-> JObj([id |-> JStr("name")])]))
\* {"formTitle":"T","formDescription":"D","fields":[null]}
TNullEntry == Json(Schema("T", "D", <<JNull>>))
\* ... "fields":[{"id":"name",...},"age"]
TStringEntry == Json(Schema("T", "D", <<Field("name", TRUE), JStr("age")>>))
\* ... "fields":[[]]
TArrayEntry == Json(Schema("T", "D", <<JArr(<<>>)>>))
\* ... "fields":[{"label":"Name"}]
TNoIdEntry == Json(Schema("T", "D", <<JObj([label |-> JStr("Name")])>>))
\* ... "fields":[{"id":"","type":"text","label":"","required":true}]
TEmptyIdEntry == Json(Schema("T", "D", <<Field("", TRUE)>>))
\* {"formDescription":"D","fields":[]}
TNoTitle ==
    Json(JObj([formDescription |-> JStr("D"), fields |-> JArr(<<>>)]))
\* {"formTitle":5,"formDescription":"D","fields":[]}
TNumberTitle ==
    Json(JObj([formTitle |-> JNum(5), formDescription |-> JStr("D"),
               fields |-> JArr(<<>>)]))
\* {"formTitle":"","formDescription":"D","fields":[{"id":"name",...}]}
TEmptyTitle == Json(Schema("", "D", <<Field("name", TRUE)>>))
\* {"formTitle":"T","fields":[]}
TNoDescription ==
    Json(JObj([formTitle |-> JStr("T"), fields |-> JArr(<<>>)]))
\* {"formTitle":"T","formDescription":"","fields":[]}
TEmptyDescription == Json(Schema("T", "", <<>>))
\* {"formTitle":"New Form","formDescription":"Please fill out this form","fields":[]}
TDefaultLike == Json(Schema("New Form", "Please fill out this form", <<>>))
\* {"formTitle":"T","formDescription":"D","fields":[{"id":"name","type":"text","label":"name","required":true}]}
TName == Json(Schema("T", "D", <<Field("name", TRUE)>>))
\* a required field with a pattern and an optional field with a pattern
TTwo ==
    Json(Schema("T", "D",
                <<FieldP("name", TRUE, ContainsXPattern, "Must contain x"),
                  FieldP("age", FALSE, DigitsPattern, "Digits only")>>))
\* a field whose pattern is not a regular expression
TBadPattern ==
    Json(Schema("T", "D",
                <<Field("name", TRUE),
                  FieldP("code", FALSE, UnbalancedPattern, "Invalid code")>>))
\* two fields with the same id
TDuplicate ==
    Json(Schema("T", "D",
                <<Field("name", TRUE),
                  FieldP("name", FALSE, DigitsPattern, "Digits only")>>))

Texts ==
    {TEmpty, TOpenBrace, TNull, TNumber, TArray, TNoFields, TFieldsObject,
     TNullEntry, TStringEntry, TArrayEntry, TNoIdEntry, TEmptyIdEntry,
     TNoTitle, TNumberTitle, TEmptyTitle, TNoDescription, TEmptyDescription,
     TDefaultLike, TName, TTwo, TBadPattern, TDuplicate}

----------------------------------------------------------------------------
(* handleJsonChange: the try block, lines 81-126 *)

SyntaxErrorMessage == "Invalid JSON format. Please fix the syntax errors."
TypeErrorMessage == "Cannot read properties of null"
FieldsMessage == "Missing or invalid \"fields\"."
InvalidFieldMessage == "Invalid field detected:"
DescriptionMessage == "Missing or invalid \"formDescription\"."
TitleMessage == "Missing or invalid \"formTitle\"."

\* the filter callback of line 94 throws on this entry (field.id of null)
FieldTestThrows(field) ==
    ~(TypeOf(field) # "object" \/ IsArray(field)) /\ GetThrows(field)

\* the filter callback of line 94
IsInvalidField(field) ==
    TypeOf(field) # "object" \/ IsArray(field) \/ ~Truthy(Get(field, "id"))

\* invalidFields, lines 92-95
invalidFields(fields) == SelectSeq(fields, IsInvalidField)

\* FieldsInvalid with an empty array taken for a missing one
FieldsInvalidRejectsEmpty(parsed) ==
    \/ ~Truthy(Get(parsed, "fields")) \/ ~IsArray(Get(parsed, "fields"))
    \/ Len(Get(parsed, "fields").a) = 0

\* the test of line 85
FieldsInvalid(parsed) ==
    ~Truthy(Get(parsed, "fields")) \/ ~IsArray(Get(parsed, "fields"))

\* the test of lines 108-111
DescriptionInvalid(parsed) ==
    \/ ~Truthy(Get(parsed, "formDescription"))
    \/ TypeOf(Get(parsed, "formDescription")) # "string"

\* TitleInvalid without its typeof test
TitleInvalidNoTypeof(parsed) == ~Truthy(Get(parsed, "formTitle"))

\* the test of line 118
TitleInvalid(parsed) ==
    \/ ~Truthy(Get(parsed, "formTitle"))
    \/ TypeOf(Get(parsed, "formTitle")) # "string"

\* the message of the error the try block throws on the text, "" if none
TryError(text) ==
    IF JSONParseThrows(text) THEN SyntaxErrorMessage
    ELSE LET parsed == JSONParse(text) IN
      IF GetThrows(parsed) THEN TypeErrorMessage
      ELSE IF FieldsInvalid(parsed) THEN FieldsMessage
      ELSE LET fields == Get(parsed, "fields").a IN
        IF \E i \in 1..Len(fields) : FieldTestThrows(fields[i])
          THEN TypeErrorMessage
        ELSE IF Len(invalidFields(fields)) > 0 THEN InvalidFieldMessage
        ELSE IF DescriptionInvalid(parsed) THEN DescriptionMessage
        ELSE IF TitleInvalid(parsed) THEN TitleMessage
        ELSE ""

----------------------------------------------------------------------------
(* validateField, lines 66-77 *)

\* the values a user can type: strings over Alphabet, as character sequences
Alphabet == {"1", "x"}
Values == UNION {[1..n -> Alphabet] : n \in 0..MaxValLen}
Digits == {"0", "1", "2", "3", "4", "5", "6", "7", "8", "9"}

RequiredMessage == "This field is required"

\* new RegExp(pattern) throws a SyntaxError
RegExpThrows(pattern) == pattern = UnbalancedPattern

\* new RegExp(pattern).test(value), for the patterns of the documents above
RegExpTest(pattern, value) ==
    CASE pattern = DigitsPattern ->
           Len(value) >= 1 /\ \A i \in 1..Len(value) : value[i] \in Digits
      [] pattern = ContainsXPattern ->
           \E i \in 1..Len(value) : value[i] = "x"
      [] OTHER -> FALSE

\* field.validation?.pattern
PatternOf(field) ==
    LET validation == Get(field, "validation") IN
    IF GetThrows(validation) THEN JUndefined ELSE Get(validation, "pattern")

\* field.validation.message
MessageOf(field) == Get(Get(field, "validation"), "message").s

\* field.required && !value
RequiredFails(field, value) == Truthy(Get(field, "required")) /\ value = <<>>

\* validateField(field, value) throws: line 71 cannot compile the pattern
validateFieldThrows(field, value) ==
    /\ ~RequiredFails(field, value)
    /\ Truthy(PatternOf(field)) /\ value # <<>>
    /\ RegExpThrows(PatternOf(field).s)

\* what validateField(field, value) returns, when it does not throw
validateField(field, value) ==
    IF RequiredFails(field, value) THEN RequiredMessage
    ELSE IF /\ Truthy(PatternOf(field)) /\ value # <<>>
            /\ ~RegExpTest(PatternOf(field).s, value)
      THEN MessageOf(field)
    ELSE ""

----------------------------------------------------------------------------
(* State maps: an object used as a map from keys to strings *)

EmptyMap == <<>>

\* {...m, [key]: value}
Put(m, key, value) ==
    [k \in DOMAIN m \cup {key} |-> IF k = key THEN value ELSE m[k]]

\* m[key]; undefined where the key is absent, and as falsy as the empty string
Lookup(m, key) == IF key \in DOMAIN m THEN m[key] ELSE <<>>

----------------------------------------------------------------------------
(* The effects *)

\* initialData, lines 49-52
initialData(schema) == [k \in FieldIds(schema) |-> <<>>]

\* SchemaEffect with an empty dependency list: it runs on the first render only
SchemaEffectOnMount(changed, schema, data) == data

\* the effect of lines 48-54 runs when parsedSchema is another object
SchemaEffect(changed, schema, data) ==
    IF changed THEN initialData(schema) ELSE data

\* ClearTimeout of an effect that returns no cleanup
KeepTimers(ts) == ts

\* clearTimeout(timer), line 62: cancels the timer its effect started
ClearTimeout(ts) == <<>>

\* SuccessEffect with an empty dependency list: it runs on the first render only
SuccessEffectOnMount(before, after, ts) == ts

\* the effect of lines 57-64, run when submitSuccess changes: the cleanup of
\* its previous run, then a new timer when submitSuccess is true
SuccessEffect(before, after, ts) ==
    IF before = after THEN ts
    ELSE LET cleaned == IF before THEN ClearTimeout(ts) ELSE ts IN
         IF after THEN Append(cleaned, TimerDelay) ELSE cleaned

----------------------------------------------------------------------------
(* Initial state: lines 39-45, and the effects of the first render *)

Init ==
    /\ jsonSchema = TEmpty
    /\ parsedSchema = defaultSchema
    /\ schemaIsDefault = TRUE
    /\ jsonError = ""
    /\ formData = SchemaEffect(TRUE, defaultSchema, EmptyMap)
    /\ formErrors = EmptyMap
    /\ isSubmitting = FALSE
    /\ submitSuccess = FALSE
    /\ timers = SuccessEffect(FALSE, FALSE, <<>>)
    /\ sinceSuccess = 0
    /\ mounted = TRUE
    /\ lastEvent = "mount"

----------------------------------------------------------------------------
(* handleJsonChange, lines 79-155, and the effect it triggers *)

\* Accept with an effect that compares the schemas by their contents
AcceptIfDifferent(text) ==
    /\ TryError(text) = ""
    /\ parsedSchema' = JSONParse(text)
    /\ schemaIsDefault' = FALSE
    /\ jsonError' = ""
    /\ formData' = SchemaEffect(JSONParse(text) # parsedSchema,
                                JSONParse(text), formData)

\* the try block ran to line 125: the parsed document is installed
Accept(text) ==
    /\ TryError(text) = ""
    /\ parsedSchema' = JSONParse(text)
    /\ schemaIsDefault' = FALSE
    /\ jsonError' = ""
    /\ formData' = SchemaEffect(TRUE, JSONParse(text), formData)

\* Reject without line 153: the schema is not reverted
RejectKeepsSchema(text) ==
    /\ TryError(text) # ""
    /\ jsonError' = TryError(text)
    /\ UNCHANGED <<parsedSchema, schemaIsDefault, formData>>

\* the catch block, lines 127-154
Reject(text) ==
    /\ TryError(text) # ""
    /\ jsonError' = TryError(text)
    /\ parsedSchema' = defaultSchema
    /\ schemaIsDefault' = TRUE
    /\ formData' = SchemaEffect(~schemaIsDefault, defaultSchema, formData)

handleJsonChange(text) ==
    /\ mounted
    /\ jsonSchema' = text
    /\ (Accept(text) \/ Reject(text))
    /\ lastEvent' = "json"
    /\ UNCHANGED <<formErrors, isSubmitting, submitSuccess, timers,
                   sinceSuccess, mounted>>

----------------------------------------------------------------------------
(* handleInputChange, lines 157-171: the control of the i-th field changes *)

\* parsedSchema.fields.find((f) => f.id === fieldId), line 163
Find(fields, fieldId) ==
    LET hit(j) == Get(fields[j], "id") = fieldId IN
    fields[CHOOSE j \in 1..Len(fields) :
               hit(j) /\ \A k \in 1..(j - 1) : ~hit(k)]

handleInputChange(i, value) ==
    /\ mounted
    /\ i \in 1..Len(FieldsOf(parsedSchema))
    /\ LET fieldId == Get(FieldsOf(parsedSchema)[i], "id")
           key == KeyOf(FieldsOf(parsedSchema)[i])
           field == Find(FieldsOf(parsedSchema), fieldId)
       IN /\ formData' = Put(formData, key, value)
          /\ formErrors' =
               IF validateFieldThrows(field, value) THEN formErrors
               ELSE Put(formErrors, key, validateField(field, value))
    /\ lastEvent' = "input"
    /\ UNCHANGED <<jsonSchema, parsedSchema, schemaIsDefault, jsonError,
                   isSubmitting, submitSuccess, timers, sinceSuccess, mounted>>

----------------------------------------------------------------------------
(* handleSubmit, lines 173-201, and the effect it triggers *)

\* the forEach of lines 181-187 throws
SubmitThrows(fields, data) ==
    \E i \in 1..Len(fields) :
        validateFieldThrows(fields[i], Lookup(data, KeyOf(fields[i])))

\* newErrors after the first n fields, lines 178-187
RECURSIVE newErrors(_, _, _)
newErrors(fields, data, n) ==
    IF n = 0 THEN EmptyMap
    ELSE LET field == fields[n]
             error == validateField(field, Lookup(data, KeyOf(field)))
             before == newErrors(fields, data, n - 1)
         IN IF error # "" THEN Put(before, KeyOf(field), error) ELSE before

\* hasErrors, lines 179-187
hasErrors(fields, data) ==
    \E i \in 1..Len(fields) :
        validateField(fields[i], Lookup(data, KeyOf(fields[i]))) # ""

\* validateField throws out of the handler: only line 175 has taken effect
SubmitThrown ==
    /\ SubmitThrows(FieldsOf(parsedSchema), formData)
    /\ isSubmitting' = TRUE
    /\ lastEvent' = "submit_throw"
    /\ UNCHANGED <<formErrors, submitSuccess, timers, sinceSuccess>>

\* lines 198-200
SubmitRejected ==
    /\ ~SubmitThrows(FieldsOf(parsedSchema), formData)
    /\ hasErrors(FieldsOf(parsedSchema), formData)
    /\ formErrors' = newErrors(FieldsOf(parsedSchema), formData,
                               Len(FieldsOf(parsedSchema)))
    /\ isSubmitting' = FALSE
    /\ lastEvent' = "submit_errors"
    /\ UNCHANGED <<submitSuccess, timers, sinceSuccess>>

\* lines 191-197
SubmitAccepted ==
    /\ ~SubmitThrows(FieldsOf(parsedSchema), formData)
    /\ ~hasErrors(FieldsOf(parsedSchema), formData)
    /\ formErrors' = newErrors(FieldsOf(parsedSchema), formData,
                               Len(FieldsOf(parsedSchema)))
    /\ submitSuccess' = TRUE
    /\ timers' = SuccessEffect(submitSuccess, TRUE, timers)
    /\ sinceSuccess' = 0
    /\ isSubmitting' = FALSE
    /\ lastEvent' = "submit_ok"

\* the submit button is disabled while isSubmitting (line 318)
handleSubmit ==
    /\ mounted
    /\ ~isSubmitting
    /\ (SubmitThrown \/ SubmitRejected \/ SubmitAccepted)
    /\ UNCHANGED <<jsonSchema, parsedSchema, schemaIsDefault, jsonError,
                   formData, mounted>>

----------------------------------------------------------------------------
(* The auto-dismiss timer, lines 57-64 *)

\* one second passes while a timer is pending and none is due
Tick ==
    /\ timers # <<>>
    /\ \A i \in 1..Len(timers) : timers[i] > 0
    /\ timers' = [i \in 1..Len(timers) |-> timers[i] - 1]
    /\ sinceSuccess' = sinceSuccess + 1
    /\ UNCHANGED <<jsonSchema, parsedSchema, schemaIsDefault, jsonError,
                   formData, formErrors, isSubmitting, submitSuccess,
                   mounted, lastEvent>>

\* ts without its i-th element
Remove(ts, i) == SubSeq(ts, 1, i - 1) \o SubSeq(ts, i + 1, Len(ts))

\* a due timer runs its callback, line 60, and the effect runs again
TimerFire ==
    /\ \E i \in 1..Len(timers) :
          /\ timers[i] = 0
          /\ timers' = SuccessEffect(submitSuccess, FALSE, Remove(timers, i))
    /\ submitSuccess' = FALSE
    /\ sinceSuccess' = 0
    /\ UNCHANGED <<jsonSchema, parsedSchema, schemaIsDefault, jsonError,
                   formData, formErrors, isSubmitting, mounted, lastEvent>>

\* the component is torn down: the cleanup of line 62 runs if the effect's
\* last run returned one
Unmount ==
    /\ mounted
    /\ mounted' = FALSE
    /\ timers' = IF submitSuccess THEN ClearTimeout(timers) ELSE timers
    /\ UNCHANGED <<jsonSchema, parsedSchema, schemaIsDefault, jsonError,
                   formData, formErrors, isSubmitting, submitSuccess,
                   sinceSuccess, lastEvent>>

----------------------------------------------------------------------------

Next ==
    \/ \E text \in Texts : handleJsonChange(text)
    \/ \E i \in 1..Len(FieldsOf(parsedSchema)), value \in Values :
          handleInputChange(i, value)
    \/ handleSubmit
    \/ Tick
    \/ TimerFire
    \/ Unmount

Spec == Init /\ [][Next]_vars

\* the event loop runs a due timer, and time passes
FairSpec == Spec /\ WF_vars(Tick) /\ WF_vars(TimerFire)

----------------------------------------------------------------------------
(* Claims about handleJsonChange *)

\* the structure the specification asks of a document: fields present as a
\* sequence of non-array objects each carrying an id, formTitle and
\* formDescription present as strings
HasKey(v, key) == v.t = "obj" /\ key \in DOMAIN v.o

WellStructured(text) ==
    /\ text.kind = "json"
    /\ HasKey(text.doc, "fields") /\ text.doc.o.fields.t = "arr"
    /\ \A i \in 1..Len(text.doc.o.fields.a) :
          HasKey(text.doc.o.fields.a[i], "id")
    /\ HasKey(text.doc, "formTitle") /\ text.doc.o.formTitle.t = "str"
    /\ HasKey(text.doc, "formDescription")
    /\ text.doc.o.formDescription.t = "str"

\* C1: after an edit whose text is not valid JSON or violates the structure,
\* the active schema is the default schema and the schema error is not empty
C1_InvalidTextFallsBack ==
    (lastEvent = "json" /\ ~WellStructured(jsonSchema)) =>
        /\ parsedSchema = Schema("New Form", "Please fill out this form", <<>>)
        /\ jsonError # ""

\* C1 witness: a structurally invalid JSON text was rejected after a form of
\* an earlier schema had been used
C1_Witness ==
    /\ lastEvent = "json"
    /\ jsonSchema.kind = "json" /\ ~WellStructured(jsonSchema)
    /\ formErrors # EmptyMap
    /\ parsedSchema = defaultSchema /\ jsonError # ""

\* C2 as stated: after an edit whose text has the structure, the active schema
\* is the parsed document and the schema error is empty
C2_Original ==
    (lastEvent = "json" /\ WellStructured(jsonSchema)) =>
        (parsedSchema = jsonSchema.doc /\ jsonError = "")

\* every id is truthy, and formTitle and formDescription are not empty
NothingEmpty(text) ==
    /\ \A i \in 1..Len(text.doc.o.fields.a) :
          LET id == text.doc.o.fields.a[i].o.id IN
          /\ id.t \notin {"null"}
          /\ id.t = "str" => id.s # ""
          /\ id.t = "num" => id.n # 0
          /\ id.t = "bool" => id.b
    /\ text.doc.o.formTitle.s # ""
    /\ text.doc.o.formDescription.s # ""

\* C2 amended: after an edit whose text has the structure, with every id
\* truthy and formTitle and formDescription not empty, the active schema is
\* the parsed document and the schema error is empty
C2_WellFormedTextInstalled ==
    (lastEvent = "json" /\ WellStructured(jsonSchema) /\ NothingEmpty(jsonSchema))
        => (parsedSchema = jsonSchema.doc /\ jsonError = "")

\* C2 witness: a document with fields was installed
C2_Witness ==
    /\ lastEvent = "json"
    /\ WellStructured(jsonSchema) /\ NothingEmpty(jsonSchema)
    /\ Len(jsonSchema.doc.o.fields.a) = 2
    /\ parsedSchema = jsonSchema.doc /\ jsonError = ""
    /\ formErrors # EmptyMap

----------------------------------------------------------------------------
(* Claims about validateField and handleSubmit *)

\* the i-th field of the active schema and its current value
FieldAt(i) == FieldsOf(parsedSchema)[i]
ValueAt(i) == Lookup(formData, KeyOf(FieldAt(i)))

\* the result the specification gives validateField(field, value)
RuleResult(field, value) ==
    IF Get(field, "required") = JBool(TRUE) /\ value = <<>>
      THEN "This field is required"
    ELSE IF /\ HasKey(field, "validation")
            /\ HasKey(field.o.validation, "pattern")
            /\ value # <<>>
            /\ ~RegExpTest(field.o.validation.o.pattern.s, value)
      THEN field.o.validation.o.message.s
    ELSE ""

\* C3: for every field of the active schema and every value, validateField
\* returns the required message when the field is required and the value is
\* empty, else the validation message when a pattern is present and the
\* non-empty value does not match it, else the empty string
C3_ValidateFieldRule ==
    \A i \in 1..Len(FieldsOf(parsedSchema)), value \in Values :
        /\ ~validateFieldThrows(FieldAt(i), value)
        /\ validateField(FieldAt(i), value) = RuleResult(FieldAt(i), value)

\* a submit has run since the last edit or input change
Submitted == lastEvent \in {"submit_ok", "submit_errors", "submit_throw"}

\* validateField returns the empty string for the i-th field
FieldPasses(i) ==
    /\ ~validateFieldThrows(FieldAt(i), ValueAt(i))
    /\ validateField(FieldAt(i), ValueAt(i)) = ""

\* validateField returns a message for the i-th field
FieldFails(i) ==
    /\ ~validateFieldThrows(FieldAt(i), ValueAt(i))
    /\ validateField(FieldAt(i), ValueAt(i)) # ""

\* C4: a submit sets submitSuccess exactly when every field passes; when a
\* field fails, submitSuccess is not set and formErrors holds, under the id
\* of every failing field, the message of a failing field of that id, and
\* holds no entry under any other id
C4_AllOrNothing ==
    LET n == Len(FieldsOf(parsedSchema)) IN
    Submitted =>
        /\ (lastEvent = "submit_ok") <=> (\A i \in 1..n : FieldPasses(i))
        /\ (\E i \in 1..n : FieldFails(i)) =>
              /\ lastEvent # "submit_ok"
              /\ \A i \in 1..n : FieldFails(i) =>
                    /\ KeyOf(FieldAt(i)) \in DOMAIN formErrors
                    /\ \E j \in 1..n :
                          /\ FieldFails(j)
                          /\ KeyOf(FieldAt(j)) = KeyOf(FieldAt(i))
                          /\ formErrors[KeyOf(FieldAt(i))]
                               = validateField(FieldAt(j), ValueAt(j))
              /\ \A k \in DOMAIN formErrors :
                    \E j \in 1..n : FieldFails(j) /\ KeyOf(FieldAt(j)) = k

\* C5: after handleSubmit has run, isSubmitting is false
C5_SubmitEndsIdle == Submitted => ~isSubmitting

----------------------------------------------------------------------------
(* Claims about the success message and its timer *)

\* a step of a handler the user triggers
UserAction ==
    \/ \E text \in Texts : handleJsonChange(text)
    \/ \E i \in 1..Len(FieldsOf(parsedSchema)), value \in Values :
          handleInputChange(i, value)
    \/ handleSubmit

\* an auto-dismiss timer is due
TimerDue == \E i \in 1..Len(timers) : timers[i] = 0

\* C6 as stated: while the component is mounted, submitSuccess true leads to
\* submitSuccess false, and while submitSuccess is true the user has an
\* action that clears it
C6_Original ==
    /\ (submitSuccess /\ mounted) ~> (~submitSuccess \/ ~mounted)
    /\ [](submitSuccess /\ mounted => ENABLED (UserAction /\ ~submitSuccess'))

\* C6 amended: while the component is mounted, submitSuccess true leads to
\* submitSuccess false, and only the callback of a due timer clears it
C6_AutoDismissOnly ==
    /\ (submitSuccess /\ mounted) ~> (~submitSuccess \/ ~mounted)
    /\ [][(submitSuccess /\ ~submitSuccess') => TimerDue]_vars

\* C6 witness: the timer has cleared the success message of a submit
C6_Witness ==
    /\ lastEvent = "submit_ok" /\ ~submitSuccess /\ mounted /\ timers = <<>>


\* C7: an auto-dismiss timer is due only when the latest successful submit
\* is a full delay old, so that the success state of the latest submit lasts
\* its own delay
C7_LatestSuccessLastsFullDelay == TimerDue => sinceSuccess = TimerDelay

\* C8: no timer is pending after teardown, at most one timer is pending at
\* any time, and none is pending while submitSuccess is false
C8_TimerTiedToSuccess ==
    /\ ~mounted => timers = <<>>
    /\ Len(timers) <= 1
    /\ ~submitSuccess => timers = <<>>

\* C8 witness: the component was torn down while the success message was
\* shown and its timer had run for a second or more
C8_Witness ==
    /\ ~mounted /\ submitSuccess /\ sinceSuccess > 0 /\ timers = <<>>

----------------------------------------------------------------------------
(* Claims about formData and formErrors across schema changes *)

\* C9: formData has exactly the field ids of the active schema as keys, and
\* after an edit every value is the empty string
C9_FormDataFollowsSchema ==
    /\ DOMAIN formData = FieldIds(parsedSchema)
    /\ lastEvent = "json" => \A k \in DOMAIN formData : formData[k] = <<>>

\* C9 witness: a schema with fields replaced a schema whose form had been
\* filled in and had shown an error under an id the new schema lacks
C9_Witness ==
    /\ lastEvent = "json"
    /\ FieldIds(parsedSchema) # {}
    /\ \E k \in DOMAIN formErrors :
          formErrors[k] # "" /\ k \notin FieldIds(parsedSchema)
    /\ \A k \in FieldIds(parsedSchema) : formData[k] = <<>>

\* C10: every key of formErrors with a non-empty message is the id of a
\* field of the active schema
C10_NoStaleErrors ==
    \A k \in DOMAIN formErrors :
        formErrors[k] # "" => k \in FieldIds(parsedSchema)

----------------------------------------------------------------------------
(* Claims about handleInputChange and the ids of the fields *)

\* m2 is m1 except possibly under key, where it has an entry
SameExceptAt(m1, m2, key) ==
    /\ DOMAIN m2 = DOMAIN m1 \cup {key}
    /\ \A k \in DOMAIN m1 \ {key} : m2[k] = m1[k]

\* C11: an input change of the i-th field to a value sets the formData entry
\* of the field to the value and its formErrors entry to what validateField
\* returns for the field and the value, and changes no other entry of
\* formData or formErrors, nor the schema, the schema error, isSubmitting or
\* submitSuccess
C11_InputChangeFrame ==
    [][\A i \in 1..Len(FieldsOf(parsedSchema)), value \in Values :
          handleInputChange(i, value) =>
              LET key == KeyOf(FieldAt(i)) IN
              /\ SameExceptAt(formData, formData', key)
              /\ formData'[key] = value
              /\ SameExceptAt(formErrors, formErrors', key)
              /\ ~validateFieldThrows(FieldAt(i), value)
              /\ formErrors'[key] = validateField(FieldAt(i), value)
              /\ UNCHANGED <<parsedSchema, jsonError, isSubmitting,
                             submitSuccess>>]_vars

\* C12: no two fields of the active schema carry the same id
C12_UniqueIds ==
    \A i, j \in 1..Len(FieldsOf(parsedSchema)) :
        Get(FieldAt(i), "id") = Get(FieldAt(j), "id") => i = j

----------------------------------------------------------------------------
(* Claims about the outcomes of a submit and about the schema error *)

\* C13: while submitSuccess is true, formErrors holds no non-empty message
\* for any field of the active schema
C13_SuccessExcludesErrors ==
    submitSuccess =>
        \A i \in 1..Len(FieldsOf(parsedSchema)) :
            \/ KeyOf(FieldAt(i)) \notin DOMAIN formErrors
            \/ formErrors[KeyOf(FieldAt(i))] = ""


\* C14: a non-empty schema error implies that the active schema is the
\* default schema object, and after an edit the active schema and the schema
\* error are functions of the text of that edit alone
C14_ErrorMeansDefault ==
    /\ jsonError # "" =>
          /\ schemaIsDefault
          /\ parsedSchema
               = Schema("New Form", "Please fill out this form", <<>>)
    /\ lastEvent = "json" =>
          /\ jsonError = TryError(jsonSchema)
          /\ parsedSchema =
               IF WellStructured(jsonSchema) /\ NothingEmpty(jsonSchema)
                 THEN jsonSchema.doc
                 ELSE Schema("New Form", "Please fill out this form", <<>>)

\* C14 witness: a text with an empty title was rejected while the form of an
\* accepted schema was in use
C14_Witness ==
    /\ lastEvent = "json" /\ jsonSchema = TEmptyTitle
    /\ jsonError = TitleMessage /\ parsedSchema = defaultSchema
    /\ \E k \in DOMAIN formErrors : formErrors[k] # ""

\* C15: every accepted edit installs a new schema object and leaves every
\* formData value empty, whatever the schema before it; a rejected edit that
\* follows a rejected edit keeps the default schema object and formData
C15_AcceptedEditResets ==
    [][\A text \in Texts :
          handleJsonChange(text) =>
              /\ jsonError' = "" =>
                    /\ ~schemaIsDefault'
                    /\ \A k \in DOMAIN formData' : formData'[k] = <<>>
              /\ (jsonError # "" /\ jsonError' # "") =>
                    /\ schemaIsDefault /\ schemaIsDefault'
                    /\ formData' = formData]_vars

\* C15 witness: the form of the active schema holds a value, and entering
\* the text of the active schema again is accepted and empties the value
C15_Witness ==
    /\ jsonError = "" /\ jsonSchema.kind = "json"
    /\ parsedSchema = jsonSchema.doc
    /\ \E k \in DOMAIN formData : formData[k] # <<>>
    /\ ENABLED (/\ handleJsonChange(jsonSchema)
                /\ parsedSchema' = parsedSchema
                /\ \A k \in DOMAIN formData' : formData'[k] = <<>>)

====
